---- MODULE Spec2Model ----
(***************************************************************************)
(* A model of table-harvester.js: the extraction of HTML tables into       *)
(* records and column names, the naming of the CSV files, and the run      *)
(* over the input files.                                                   *)
(*                                                                         *)
(* Strings are sequences of one-character strings, so that the string      *)
(* operations of the script (toLowerCase, replace, trim, split, template   *)
(* literals) are computed character by character. A character outside     *)
(* printable ASCII is written as the one-element token "U+XXXX" of its     *)
(* code unit (tab, line feed, form feed and carriage return as the escapes *)
(* of TLA+). The characters of the model are ASCII, the white space of     *)
(* String.prototype.trim, and the code units U+212A, U+0130 and U+0307,    *)
(* the only ones outside ASCII whose lower case meets [a-z0-9].            *)
(***************************************************************************)
EXTENDS Integers, Sequences, FiniteSets, TLC

VARIABLES
    pc,               \* position of the script within the specification at hand
    name,             \* normalisation: the argument of normalizeColumnName
    once,             \* normalisation: normalizeColumnName(name)
    twice,            \* normalisation: normalizeColumnName(once)
    rows,             \* extraction: the tr elements of the table, in document order
    rowIndex,         \* extraction: 1-based position of the next row to visit
    colIndex,         \* extraction: number of td cells of the current row already visited
    headers,          \* extraction: let headers = []
    headerExtracted,  \* extraction: let headerExtracted = false
    rowData,          \* extraction: const rowData = {} of the current data row
    tableData,        \* extraction: const tableData = []
    allHeaders,       \* extraction: let allHeaders = new Set(), in insertion order
    input,            \* run: argv.input and what the file system holds at that path
    htmlFiles,        \* run: const htmlFiles, empty until getHtmlFiles has returned
    documents,        \* run: file name -> the sibling nodes of its parsed document
    fileIndex,        \* run: 1-based position of the current file in htmlFiles
    tableIndex,       \* run: number of table elements of the current file already visited
    writes,           \* run: the fs.writeFileSync calls that succeeded, in order
    log,              \* run: the console.log lines, in order
    exitCode,         \* run: the exit status of the process (-1 while running)
    error             \* run: the error that was thrown, "none" if none

vars == <<pc, name, once, twice, rows, rowIndex, colIndex, headers, headerExtracted,
          rowData, tableData, allHeaders, input, htmlFiles, documents, fileIndex, tableIndex,
          writes, log, exitCode, error>>

normVars == <<name, once, twice>>
extractVars == <<rows, rowIndex, colIndex, headers, headerExtracted, rowData,
                 tableData, allHeaders>>
runVars == <<input, htmlFiles, documents, fileIndex, tableIndex, writes, log, exitCode, error>>

----------------------------------------------------------------------------
(* Bounds of the model. *)

\* longest string handed to normalizeColumnName in SpecNorm
MaxLen == 3
\* most tr elements in a table of Spec
MaxRows == 2
\* most cells (th and td together) in a row of Spec
MaxCells == 2
\* most sibling nodes (headings and tables) in a document of SpecRun
MaxNodes == 2

----------------------------------------------------------------------------
(* Characters and strings. *)

UpperLetters == <<"A","B","C","D","E","F","G","H","I","J","K","L","M",
                  "N","O","P","Q","R","S","T","U","V","W","X","Y","Z">>
LowerLetters == <<"a","b","c","d","e","f","g","h","i","j","k","l","m",
                  "n","o","p","q","r","s","t","u","v","w","x","y","z">>
DigitChars == <<"0","1","2","3","4","5","6","7","8","9">>

Range(s) == {s[i] : i \in DOMAIN s}

\* String.prototype.toLowerCase on one character: the string it becomes.
\* KELVIN SIGN (U+212A) becomes k, and LATIN CAPITAL LETTER I WITH DOT ABOVE
\* (U+0130) becomes i followed by COMBINING DOT ABOVE (U+0307)
LowerChar(c) ==
    IF \E i \in DOMAIN UpperLetters : UpperLetters[i] = c
    THEN <<LowerLetters[CHOOSE i \in DOMAIN UpperLetters : UpperLetters[i] = c]>>
    ELSE IF c = "U+212A" THEN <<"k">>
    ELSE IF c = "U+0130" THEN <<"i", "U+0307">>
    ELSE <<c>>

RECURSIVE toLowerCase(_)
toLowerCase(s) ==
    IF s = <<>> THEN <<>> ELSE LowerChar(Head(s)) \o toLowerCase(Tail(s))

\* the character class [a-z0-9]
IsAlnum(c) == c \in Range(LowerLetters) \cup Range(DigitChars)

\* replace(/[^a-z0-9]/g, '_')
ReplaceNonAlnum(s) == [i \in DOMAIN s |-> IF IsAlnum(s[i]) THEN s[i] ELSE "_"]

\* replace(/_+/g, '_')
RECURSIVE CollapseUnderscores(_)
CollapseUnderscores(s) ==
    IF Len(s) < 2 THEN s
    ELSE IF s[1] = "_" /\ s[2] = "_" THEN CollapseUnderscores(Tail(s))
    ELSE <<s[1]>> \o CollapseUnderscores(Tail(s))

RECURSIVE StripLeading(_, _)
StripLeading(s, cs) ==
    IF s # <<>> /\ s[1] \in cs THEN StripLeading(Tail(s), cs) ELSE s

RECURSIVE StripTrailing(_, _)
StripTrailing(s, cs) ==
    IF s # <<>> /\ s[Len(s)] \in cs
    THEN StripTrailing(SubSeq(s, 1, Len(s) - 1), cs) ELSE s

\* replace(/^_+|_+$/g, '')
TrimUnderscores(s) == StripTrailing(StripLeading(s, {"_"}), {"_"})

\* the white space and line terminators that String.prototype.trim strips
WhiteSpace ==
    {" ", "\t", "\n", "\f", "\r", "U+000B", "U+00A0", "U+1680",
     "U+2000", "U+2001", "U+2002", "U+2003", "U+2004", "U+2005", "U+2006",
     "U+2007", "U+2008", "U+2009", "U+200A", "U+2028", "U+2029", "U+202F",
     "U+205F", "U+3000", "U+FEFF"}

\* String.prototype.trim
trim(s) == StripTrailing(StripLeading(s, WhiteSpace), WhiteSpace)

\* a mutant of normalizeColumnName: the underscores are trimmed before the
\* other characters are replaced by underscores
normalizeColumnNameTrimFirst(s) ==
    CollapseUnderscores(ReplaceNonAlnum(TrimUnderscores(toLowerCase(s))))

normalizeColumnName(s) ==
    TrimUnderscores(CollapseUnderscores(ReplaceNonAlnum(toLowerCase(s))))

\* the decimal digits of a natural number, as a template literal prints it
RECURSIVE ToStr(_)
ToStr(n) ==
    IF n < 10 THEN <<DigitChars[n + 1]>>
    ELSE ToStr(n \div 10) \o <<DigitChars[(n % 10) + 1]>>

\* text.split(sep)[0] for a separator of one character
RECURSIVE SplitFirst(_, _)
SplitFirst(s, sep) ==
    IF s = <<>> \/ s[1] = sep THEN <<>>
    ELSE <<s[1]>> \o SplitFirst(Tail(s), sep)

RECURSIVE SeqsUpTo(_, _)
SeqsUpTo(S, n) ==
    IF n = 0 THEN {<<>>}
    ELSE LET shorter == SeqsUpTo(S, n - 1)
         IN  shorter \cup {Append(s, x) : s \in shorter, x \in S}

----------------------------------------------------------------------------
(* SpecNorm: normalizeColumnName applied once and twice to a string.       *)

NormAlphabet == {"A", "b", "1", "_", " ", "-", "U+212A", "U+0130"}

idleNorm == name = <<>> /\ once = <<>> /\ twice = <<>>
idleExtract ==
    /\ rows = <<>> /\ rowIndex = 0 /\ colIndex = 0 /\ headers = <<>>
    /\ headerExtracted = FALSE /\ rowData = <<>> /\ tableData = <<>>
    /\ allHeaders = <<>>
idleRun ==
    /\ input = <<>> /\ htmlFiles = <<>> /\ documents = <<>> /\ fileIndex = 0 /\ tableIndex = 0
    /\ writes = <<>> /\ log = <<>> /\ exitCode = -1 /\ error = "none"

InitNorm ==
    /\ pc = "norm"
    /\ name \in SeqsUpTo(NormAlphabet, MaxLen)
    /\ once = <<>> /\ twice = <<>>
    /\ idleExtract /\ idleRun

Normalize ==
    /\ pc = "norm"
    /\ once' = normalizeColumnName(name)
    /\ pc' = "renorm"
    /\ UNCHANGED <<name, twice, extractVars, runVars>>

Renormalize ==
    /\ pc = "renorm"
    /\ twice' = normalizeColumnName(once)
    /\ pc' = "normed"
    /\ UNCHANGED <<name, once, extractVars, runVars>>

NextNorm == Normalize \/ Renormalize

SpecNorm == InitNorm /\ [][NextNorm]_vars

\* C8: normalising an already normalised string returns it unchanged:
\* normalizeColumnName(normalizeColumnName(s)) = normalizeColumnName(s).
NormalizeIdempotent == pc = "normed" => twice = once

\* C8 witness: a string that normalisation changes (case, a capital whose
\* lower case is two code units, a run of underscores to collapse and one
\* to strip) has been normalised twice.
NormalizeIdempotentWitness ==
    /\ pc = "normed"
    /\ name = <<"A", "-", "U+0130">>
    /\ once = <<"a", "_", "i">>
    /\ twice = <<"a", "_", "i">>

----------------------------------------------------------------------------
(* The configuration (the defaults of the command line) and the elements   *)
(* of a table.                                                             *)

\* argv.attributes
Attributes == << <<"a","l","t">>, <<"v","a","l","u","e">>,
                 <<"h","r","e","f">>, <<"t","i","t","l","e">> >>
\* argv.elements
Elements == << <<"a">>, <<"i","n","p","u","t">>, <<"s","p","a","n">> >>
\* argv.tableNameSeparator
tableNameSeparator == ":"

ContentSuffix == <<"_","c","o","n","t","e","n","t">>
ColumnPrefix == <<"C","o","l","u","m","n">>

\* $(node).attr(attribute): the empty string stands for undefined as well,
\* the script tests the value for truthiness only
Attr(node, attribute) ==
    IF attribute \in DOMAIN node.attrs THEN node.attrs[attribute] ELSE <<>>

RECURSIVE ChildrenText(_)
ChildrenText(children) ==
    IF children = <<>> THEN <<>>
    ELSE Head(children).text \o ChildrenText(Tail(children))

\* $(cell).text(): the text of the cell and of its descendants
CellText(cell) == cell.text \o ChildrenText(cell.children)

\* $(cell).find(element): the descendants of that tag, in document order
Find(cell, element) == SelectSeq(cell.children, LAMBDA el : el.tag = element)

\* the tags of 'script, style, noscript'
UnwantedTags == { <<"s","c","r","i","p","t">>, <<"s","t","y","l","e">>,
                  <<"n","o","s","c","r","i","p","t">> }

\* $(table).find('script, style, noscript').remove(), in one cell
PruneCell(cell) ==
    [cell EXCEPT !.children = SelectSeq(@, LAMBDA el : el.tag \notin UnwantedTags)]

\* $(table).find('script, style, noscript').remove(), in one row
PruneRow(row) ==
    [ths |-> [i \in DOMAIN row.ths |-> PruneCell(row.ths[i])],
     tds |-> [i \in DOMAIN row.tds |-> PruneCell(row.tds[i])]]

\* $(table).find('script, style, noscript').remove()
RemoveUnwanted(trs) == [i \in DOMAIN trs |-> PruneRow(trs[i])]

\* a td of white space, without attributes or nested elements
EmptyCell == [text |-> <<"\n", " ">>, attrs |-> <<>>, children |-> <<>>]
\* <td title="t">(line feed, blank)x<a href="h">p</a><script>y</script></td>
LinkCell ==
    [text |-> <<"\n", " ", "x">>,
     attrs |-> (<<"t","i","t","l","e">> :> <<"t">>),
     children |-> << [tag |-> <<"a">>, text |-> <<"p">>,
                      attrs |-> (<<"h","r","e","f">> :> <<"h">>)],
                     [tag |-> <<"s","c","r","i","p","t">>, text |-> <<"y">>,
                      attrs |-> <<>>] >>]
\* <th>A <script>b</script></th>
NamedHeader ==
    [text |-> <<"A", " ">>, attrs |-> <<>>,
     children |-> << [tag |-> <<"s","c","r","i","p","t">>, text |-> <<"b">>,
                      attrs |-> <<>>] >>]
\* <th>#</th>
SymbolHeader == [text |-> <<"#">>, attrs |-> <<>>, children |-> <<>>]

\* the th cells of the model
ThCells == {NamedHeader, SymbolHeader}
\* the td cells of the model
Cells == {EmptyCell, LinkCell}

\* a tr element: its th cells and its td cells, each in order
RowUniverse ==
    {r \in [ths : SeqsUpTo(ThCells, MaxCells), tds : SeqsUpTo(Cells, MaxCells)] :
        Len(r.ths) + Len(r.tds) <= MaxCells}

TableUniverse == SeqsUpTo(RowUniverse, MaxRows)

----------------------------------------------------------------------------
(* The row callback of main, in pieces.                                    *)

\* $('th', row).each(... headers.push(normalizeColumnName($(header).text().trim())))
RECURSIVE PushHeaders(_, _)
PushHeaders(hs, ths) ==
    IF ths = <<>> THEN hs
    ELSE PushHeaders(Append(hs, normalizeColumnName(trim(CellText(Head(ths))))),
                     Tail(ths))

\* a mutant of HeaderRowStep: the flag headerExtracted is never set
HeaderRowStepNoFlag(h, row) ==
    IF Len(row.ths) > 0
    THEN [headers |-> PushHeaders(h.headers, row.ths), headerExtracted |-> FALSE]
    ELSE h

\* the branch if (!headerExtracted) of the row callback
HeaderRowStep(h, row) ==
    IF Len(row.ths) > 0
    THEN [headers |-> PushHeaders(h.headers, row.ths), headerExtracted |-> TRUE]
    ELSE h

\* a mutant of BaseColumnName: an empty header is used as it is
BaseColumnNameNoFallback(hs, k) ==
    IF k + 1 <= Len(hs) THEN hs[k + 1] ELSE ColumnPrefix \o ToStr(k)

\* headers[colIndex] || `Column${colIndex}`, colIndex counted from 0
BaseColumnName(hs, k) ==
    IF k + 1 <= Len(hs) /\ hs[k + 1] # <<>> THEN hs[k + 1]
    ELSE ColumnPrefix \o ToStr(k)

\* argv.attributes.forEach over one node: the fields of its truthy attributes
RECURSIVE AttrFields(_, _, _)
AttrFields(prefix, node, i) ==
    IF i > Len(Attributes) THEN <<>>
    ELSE LET value == Attr(node, Attributes[i])
         IN  (IF value # <<>>
              THEN << <<prefix \o <<"_">> \o Attributes[i], value>> >>
              ELSE <<>>)
             \o AttrFields(prefix, node, i + 1)

\* $(cell).find(element).each: the fields of the matches from the j-th on
RECURSIVE MatchFields(_, _, _, _)
MatchFields(base, element, matches, j) ==
    IF j > Len(matches) THEN <<>>
    ELSE LET prefix == base \o <<"_">> \o element \o ToStr(j - 1)
         IN  << <<prefix \o ContentSuffix, trim(matches[j].text)>> >>
             \o AttrFields(prefix, matches[j], 1)
             \o MatchFields(base, element, matches, j + 1)

\* argv.elements.forEach over one cell
RECURSIVE ElementFields(_, _, _)
ElementFields(base, cell, i) ==
    IF i > Len(Elements) THEN <<>>
    ELSE MatchFields(base, Elements[i], Find(cell, Elements[i]), 1)
         \o ElementFields(base, cell, i + 1)

\* the td callback: the <<field name, value>> pairs it sets, in order
CellFields(hs, k, cell) ==
    LET base == BaseColumnName(hs, k)
    IN  << <<base \o ContentSuffix, trim(CellText(cell))>> >>
        \o AttrFields(base, cell, 1)
        \o ElementFields(base, cell, 1)

\* rowData[field] = value for each pair
RECURSIVE SetFields(_, _)
SetFields(record, fields) ==
    IF fields = <<>> THEN record
    ELSE LET k == Head(fields)[1]
             v == Head(fields)[2]
         IN  SetFields([x \in DOMAIN record \cup {k} |->
                            IF x = k THEN v ELSE record[x]], Tail(fields))

\* a mutant of AddHeaders: only the _content field of the cell is registered
AddHeadersContentOnly(registry, fields) ==
    IF fields = <<>> \/ Head(fields)[1] \in Range(registry) THEN registry
    ELSE Append(registry, Head(fields)[1])

\* allHeaders.add(field) for each pair
RECURSIVE AddHeaders(_, _)
AddHeaders(registry, fields) ==
    IF fields = <<>> THEN registry
    ELSE AddHeaders(IF Head(fields)[1] \in Range(registry) THEN registry
                    ELSE Append(registry, Head(fields)[1]),
                    Tail(fields))

\* the empty rowData
EmptyRecord == <<>>

\* if (Object.keys(rowData).length > 0) tableData.push(rowData)
PushRow(data, record) ==
    IF Cardinality(DOMAIN record) > 0 THEN Append(data, record) ELSE data

----------------------------------------------------------------------------
(* Spec: the extraction of one table, a row callback or a td callback at   *)
(* a time.                                                                 *)

Init ==
    /\ pc = "prune"
    /\ rows \in TableUniverse
    /\ rowIndex = 1
    /\ colIndex = 0
    /\ headers = <<>>
    /\ headerExtracted = FALSE
    /\ rowData = EmptyRecord
    /\ tableData = <<>>
    /\ allHeaders = <<>>
    /\ idleNorm /\ idleRun

\* the start of the table callback: the script, style and noscript elements
\* of the table are removed from the document
PruneTable ==
    /\ pc = "prune"
    /\ rows' = RemoveUnwanted(rows)
    /\ pc' = "row"
    /\ UNCHANGED <<rowIndex, colIndex, headers, headerExtracted, rowData, tableData,
                   allHeaders, normVars, runVars>>

\* the row callback while no header row has been found
ScanRow ==
    /\ pc = "row" /\ rowIndex <= Len(rows)
    /\ ~headerExtracted
    /\ LET h == HeaderRowStep([headers |-> headers,
                               headerExtracted |-> headerExtracted], rows[rowIndex])
       IN  /\ headers' = h.headers
           /\ headerExtracted' = h.headerExtracted
    /\ rowIndex' = rowIndex + 1
    /\ UNCHANGED <<pc, rows, colIndex, rowData, tableData, allHeaders, normVars, runVars>>

\* the row callback after the header row: const rowData = {}
BeginDataRow ==
    /\ pc = "row" /\ rowIndex <= Len(rows)
    /\ headerExtracted
    /\ rowData' = EmptyRecord
    /\ colIndex' = 0
    /\ pc' = "cell"
    /\ UNCHANGED <<rows, rowIndex, headers, headerExtracted, tableData, allHeaders,
                   normVars, runVars>>

\* the td callback of the next cell of the row
ProcessCell ==
    /\ pc = "cell" /\ colIndex < Len(rows[rowIndex].tds)
    /\ LET fields == CellFields(headers, colIndex, rows[rowIndex].tds[colIndex + 1])
       IN  /\ rowData' = SetFields(rowData, fields)
           /\ allHeaders' = AddHeaders(allHeaders, fields)
    /\ colIndex' = colIndex + 1
    /\ UNCHANGED <<pc, rows, rowIndex, headers, headerExtracted, tableData,
                   normVars, runVars>>

\* the end of the row callback of a data row
EndDataRow ==
    /\ pc = "cell" /\ colIndex = Len(rows[rowIndex].tds)
    /\ tableData' = PushRow(tableData, rowData)
    /\ rowIndex' = rowIndex + 1
    /\ pc' = "row"
    /\ UNCHANGED <<rows, colIndex, headers, headerExtracted, rowData, allHeaders,
                   normVars, runVars>>

\* after the last row: if (tableData.length > 0) ... else ...
FinishTable ==
    /\ pc = "row" /\ rowIndex > Len(rows)
    /\ pc' = IF Len(tableData) > 0 THEN "save" ELSE "nodata"
    /\ UNCHANGED <<extractVars, normVars, runVars>>

Next == PruneTable \/ ScanRow \/ BeginDataRow \/ ProcessCell \/ EndDataRow \/ FinishTable

Spec == Init /\ [][Next]_vars

TableDone == pc \in {"save", "nodata"}

----------------------------------------------------------------------------
(* The claims about the extraction of one table (Spec).                    *)

Sum(f, S) ==
    LET RECURSIVE Acc(_)
        Acc(T) == IF T = {} THEN 0
                  ELSE LET x == CHOOSE y \in T : TRUE IN f[x] + Acc(T \ {x})
    IN  Acc(S)

\* the rows whose callback has returned
ScannedRows == rowIndex - 1

\* the first of the rows 1..n that contains a th cell, 0 if none does
FirstHeaderRow(n) ==
    IF \E i \in 1..n : rows[i].ths # <<>>
    THEN CHOOSE i \in 1..n :
            rows[i].ths # <<>> /\ \A j \in 1..(i - 1) : rows[j].ths = <<>>
    ELSE 0

\* the rows among from..to that contain a td cell
RowsWithCells(from, to) == {i \in from..to : rows[i].tds # <<>>}

\* a cell with empty trimmed text, none of the configured attributes and none
\* of the configured nested elements
IsEmptyCell(cell) ==
    /\ trim(CellText(cell)) = <<>>
    /\ \A i \in DOMAIN Attributes : Attr(cell, Attributes[i]) = <<>>
    /\ \A i \in DOMAIN Elements : Find(cell, Elements[i]) = <<>>

\* C1: in a table without any th cell every row with a td cell yields a
\* Record, and its cell at position k has the field Column{k}_content.
NoHeaderFallback ==
    (TableDone /\ \A i \in DOMAIN rows : rows[i].ths = <<>>) =>
        /\ Len(tableData) = Cardinality(RowsWithCells(1, Len(rows)))
        /\ \A j \in DOMAIN tableData :
              \E i \in RowsWithCells(1, Len(rows)) :
                 \A k \in 0..(Len(rows[i].tds) - 1) :
                    (ColumnPrefix \o ToStr(k) \o ContentSuffix) \in DOMAIN tableData[j]

\* C2: a data row whose cells are all empty (no text, no configured
\* attribute, no configured nested element) appends nothing to tableData.
EmptyRowSuppression ==
    [][(/\ pc = "cell"
        /\ colIndex = Len(rows[rowIndex].tds)
        /\ \A k \in DOMAIN rows[rowIndex].tds : IsEmptyCell(rows[rowIndex].tds[k]))
       => tableData' = tableData]_vars

\* C3: headers[] is the normalised th texts of the first row that contains a
\* th cell, from the moment that row is visited and for good; every row after
\* it, th cells or not, is processed as a data row.
HeaderExclusivity ==
    LET f == FirstHeaderRow(ScannedRows)
    IN  /\ headerExtracted = (f # 0)
        /\ headers = IF f = 0 THEN <<>> ELSE PushHeaders(<<>>, rows[f].ths)
        /\ pc = "cell" => f # 0
        /\ Len(tableData) =
              IF f = 0 THEN 0 ELSE Cardinality(RowsWithCells(f + 1, ScannedRows))

\* C3 witness: the table is done, its first row is a header row and its second
\* row has th cells of another text and a td cell; the second row gave a
\* Record and left headers[] alone.
HeaderExclusivityWitness ==
    /\ TableDone
    /\ Len(rows) = 2
    /\ rows[1].ths = <<PruneCell(NamedHeader)>>
    /\ rows[2].ths = <<SymbolHeader>>
    /\ rows[2].tds = <<PruneCell(LinkCell)>>
    /\ headers = << <<"a">> >>
    /\ Len(tableData) = 1

\* the number of fields the td callbacks of the first n cells of a row set
FieldsSet(row, n) ==
    Sum([k \in 1..n |-> Len(CellFields(headers, k - 1, row.tds[k]))], 1..n)

\* C4: the derivations of a data row generate pairwise distinct field names,
\* so that the Record has as many keys as fields were set on it.
DistinctFieldNames ==
    pc = "cell" =>
        Cardinality(DOMAIN rowData) = FieldsSet(rows[rowIndex], colIndex)

\* C6: every key of every Record of tableData, and of the Record under
\* construction, is in allHeaders, after any number of rows and cells.
RegistrySuperset ==
    /\ \A j \in DOMAIN tableData : DOMAIN tableData[j] \subseteq Range(allHeaders)
    /\ DOMAIN rowData \subseteq Range(allHeaders)

\* C6 witness: a Record is under construction whose first cell gave the four
\* fields of a cell with text, an attribute and a nested element, while a
\* second cell is still to come.
RegistrySupersetWitness ==
    /\ pc = "cell"
    /\ colIndex = 1
    /\ rows[rowIndex].tds = <<PruneCell(LinkCell), PruneCell(LinkCell)>>
    /\ Cardinality(DOMAIN rowData) = 4
    /\ Len(allHeaders) = 4

\* the td cell whose callback has just returned
LastCell == rows[rowIndex].tds[colIndex]

\* the texts of the th cells of the header row
HeaderCells ==
    LET ths == rows[FirstHeaderRow(ScannedRows)].ths
    IN  [i \in DOMAIN ths |-> CellText(ths[i])]

\* C10 as stated: the base column name of the cell at index k is headers[k]
\* whenever the header row has a th cell at index k, whatever its text, and
\* Column{k} only when it has none.
BaseColumnAnyText ==
    (pc = "cell" /\ colIndex >= 1) =>
        LET k == colIndex - 1
            base == IF k + 1 <= Len(HeaderCells)
                    THEN normalizeColumnName(trim(HeaderCells[k + 1]))
                    ELSE ColumnPrefix \o ToStr(k)
        IN  (base \o ContentSuffix) \in DOMAIN rowData

\* C10 amended: the base column name of the cell at index k is headers[k]
\* when the header row has a th cell at index k whose normalised text is not
\* empty, and Column{k} when it has no th cell at index k or the text of that
\* cell normalises to the empty string.
BaseColumnResolution ==
    (pc = "cell" /\ colIndex >= 1) =>
        LET k == colIndex - 1
            base == IF /\ k + 1 <= Len(HeaderCells)
                       /\ normalizeColumnName(trim(HeaderCells[k + 1])) # <<>>
                    THEN normalizeColumnName(trim(HeaderCells[k + 1]))
                    ELSE ColumnPrefix \o ToStr(k)
        IN  /\ (base \o ContentSuffix) \in DOMAIN rowData
            /\ rowData[base \o ContentSuffix] = trim(CellText(LastCell))

\* C10 witness: under the header row <th>#</th><th>A </th> both cells of a
\* data row are done; the first got Column0, the second the header a.
BaseColumnResolutionWitness ==
    /\ pc = "cell"
    /\ colIndex = 2
    /\ HeaderCells = << <<"#">>, <<"A", " ">> >>
    /\ headers = << <<>>, <<"a">> >>
    /\ rows[rowIndex].tds = <<EmptyCell, PruneCell(LinkCell)>>
    /\ (ColumnPrefix \o <<"0">> \o ContentSuffix) \in DOMAIN rowData
    /\ rowData[<<"a">> \o ContentSuffix] = <<"x", "p">>

----------------------------------------------------------------------------
(* The table callback of main as a whole, and the documents of a run.      *)

\* the td callbacks of a data row from the k-th cell (counted from 0) on
RECURSIVE CellsStep(_, _, _)
CellsStep(st, tds, k) ==
    IF k >= Len(tds) THEN st
    ELSE LET fields == CellFields(st.headers, k, tds[k + 1])
         IN  CellsStep([st EXCEPT !.rowData = SetFields(@, fields),
                                  !.allHeaders = AddHeaders(@, fields)],
                       tds, k + 1)

\* the row callback
RowStep(st, row) ==
    IF ~st.headerExtracted
    THEN LET h == HeaderRowStep([headers |-> st.headers,
                                 headerExtracted |-> st.headerExtracted], row)
         IN  [st EXCEPT !.headers = h.headers, !.headerExtracted = h.headerExtracted]
    ELSE LET done == CellsStep([st EXCEPT !.rowData = EmptyRecord], row.tds, 0)
         IN  [done EXCEPT !.tableData = PushRow(@, done.rowData)]

\* $('tr', table).each over the rows from the i-th on
RECURSIVE RowsStep(_, _, _)
RowsStep(st, trs, i) ==
    IF i > Len(trs) THEN st ELSE RowsStep(RowStep(st, trs[i]), trs, i + 1)

\* tableData and allHeaders of a table after its last row
ExtractTable(trs) ==
    RowsStep([headers |-> <<>>, headerExtracted |-> FALSE, rowData |-> EmptyRecord,
              tableData |-> <<>>, allHeaders |-> <<>>], trs, 1)

HtmlExt == <<".","h","t","m","l">>
CsvExt == <<".","c","s","v">>
TableInfix == <<".","t","a","b","l","e","_">>

\* String.prototype.endsWith
endsWith(s, suffix) ==
    Len(s) >= Len(suffix) /\ SubSeq(s, Len(s) - Len(suffix) + 1, Len(s)) = suffix

\* the part of a path after its last slash
RECURSIVE LastSegment(_)
LastSegment(s) == IF "/" \in Range(s) THEN LastSegment(Tail(s)) ELSE s

\* path.basename(file, ext): the last segment of the path, trailing slashes
\* aside, without ext unless ext is all of it; empty when the path is ext.
\* When the scan from the end runs out of the segment while it still matches
\* the end of ext, the trailing slashes stay
basename(file, ext) ==
    IF file = ext THEN <<>>
    ELSE LET stripped == StripTrailing(file, {"/"})
             segment == LastSegment(stripped)
         IN  IF Len(ext) <= Len(file) /\ Len(segment) < Len(ext) /\ endsWith(ext, segment)
             THEN segment \o SubSeq(file, Len(stripped) + 1, Len(file))
             ELSE IF Len(segment) > Len(ext) /\ endsWith(segment, ext)
             THEN SubSeq(segment, 1, Len(segment) - Len(ext))
             ELSE segment

\* path.split('/'): the segments of a path
RECURSIVE Segments(_)
Segments(path) ==
    IF "/" \notin Range(path) THEN <<path>>
    ELSE LET first == SplitFirst(path, "/")
         IN  <<first>> \o Segments(SubSeq(path, Len(first) + 2, Len(path)))

\* the segments of a normalised path: empty segments and . are dropped, ..
\* takes back the segment before it, and stays when there is none to take
\* back and the path is relative
RECURSIVE ResolveSegments(_, _, _)
ResolveSegments(segments, resolved, allowAboveRoot) ==
    IF segments = <<>> THEN resolved
    ELSE LET segment == Head(segments)
             rest == Tail(segments)
         IN  IF segment = <<>> \/ segment = <<".">>
             THEN ResolveSegments(rest, resolved, allowAboveRoot)
             ELSE IF segment = <<".", ".">>
             THEN IF resolved # <<>> /\ resolved[Len(resolved)] # <<".", ".">>
                  THEN ResolveSegments(rest, SubSeq(resolved, 1, Len(resolved) - 1),
                                       allowAboveRoot)
                  ELSE IF allowAboveRoot
                  THEN ResolveSegments(rest, Append(resolved, segment), allowAboveRoot)
                  ELSE ResolveSegments(rest, resolved, allowAboveRoot)
             ELSE ResolveSegments(rest, Append(resolved, segment), allowAboveRoot)

\* segments.join('/')
RECURSIVE JoinSegments(_)
JoinSegments(segments) ==
    IF segments = <<>> THEN <<>>
    ELSE IF Len(segments) = 1 THEN segments[1]
    ELSE segments[1] \o <<"/">> \o JoinSegments(Tail(segments))

\* path.normalize(path)
normalize(path) ==
    IF path = <<>> THEN <<".">>
    ELSE LET isAbsolute == path[1] = "/"
             trailingSeparator == path[Len(path)] = "/"
             body == JoinSegments(ResolveSegments(Segments(path), <<>>, ~isAbsolute))
         IN  IF body = <<>>
             THEN IF isAbsolute THEN <<"/">>
                  ELSE IF trailingSeparator THEN <<".", "/">> ELSE <<".">>
             ELSE (IF isAbsolute THEN <<"/">> ELSE <<>>) \o body
                  \o (IF trailingSeparator THEN <<"/">> ELSE <<>>)

\* path.join(first, second): the arguments that are not empty, with a slash
\* between them, normalised
join(first, second) ==
    LET joined == IF first = <<>> THEN second
                  ELSE IF second = <<>> THEN first
                  ELSE first \o <<"/">> \o second
    IN  IF joined = <<>> THEN <<".">> ELSE normalize(joined)

\* isDirectory(source): fs.lstatSync throws when nothing is at the path
isDirectory(source) ==
    [threw |-> ~source.exists, value |-> source.exists /\ source.isDirectory]

\* fs.readdirSync(source): the entries of the directory, or a throw when
\* the directory cannot be listed
readdirSync(source) ==
    [threw |-> ~source.listable,
     value |-> IF source.listable THEN source.entries ELSE <<>>]

\* getHtmlFiles(source): the entries of a directory that end with .html,
\* joined to the directory, or the single file; throws when isDirectory or
\* readdirSync does
getHtmlFiles(source) ==
    IF isDirectory(source).threw THEN [threw |-> TRUE, value |-> <<>>]
    ELSE IF isDirectory(source).value
    THEN IF readdirSync(source).threw THEN [threw |-> TRUE, value |-> <<>>]
         ELSE LET found == SelectSeq(readdirSync(source).value,
                                     LAMBDA file : endsWith(file, HtmlExt))
              IN  [threw |-> FALSE,
                   value |-> [i \in DOMAIN found |-> join(source.path, found[i])]]
    ELSE [threw |-> FALSE, value |-> <<source.path>>]

\* the entries of the input directory that end with .html
HtmlEntries == { <<"x">> \o HtmlExt, <<"x">> \o TableInfix \o <<"0">> \o HtmlExt }

RECURSIVE DistinctSeqs(_, _)
DistinctSeqs(S, n) ==
    IF n = 0 THEN {<<>>}
    ELSE LET shorter == DistinctSeqs(S, n - 1)
         IN  shorter \cup UNION {{Append(s, x) : x \in S \ Range(s)} : s \in shorter}

\* argv.input: the directory d, given as d or as ./d/, with some of the
\* .html entries in the order readdirSync lists them (after an entry x.csv
\* in the second case), the single file .html, a directory u with an entry
\* that cannot be listed, or a path n where nothing is
Sources ==
    {[exists |-> TRUE, isDirectory |-> TRUE, listable |-> TRUE, path |-> <<"d">>,
      entries |-> listing] :
        listing \in DistinctSeqs(HtmlEntries, Cardinality(HtmlEntries))}
    \cup {[exists |-> TRUE, isDirectory |-> TRUE, listable |-> TRUE,
           path |-> <<".", "/", "d", "/">>,
           entries |-> << <<"x">> \o CsvExt >> \o listing] :
              listing \in DistinctSeqs(HtmlEntries, Cardinality(HtmlEntries))}
    \cup {[exists |-> TRUE, isDirectory |-> FALSE, listable |-> FALSE,
           path |-> HtmlExt, entries |-> <<>>],
          [exists |-> TRUE, isDirectory |-> TRUE, listable |-> FALSE,
           path |-> <<"u">>, entries |-> << <<"x">> \o HtmlExt >>],
          [exists |-> FALSE, isDirectory |-> FALSE, listable |-> FALSE,
           path |-> <<"n">>, entries |-> <<>>]}

\* argv.output
outputDirectory == <<"o", "u", "t">>

\* <h2>Table 0: x</h2>
HeadingNode ==
    [kind |-> "heading", text |-> <<"T","a","b","l","e"," ","0",":"," ","x">>,
     rows |-> <<>>]
\* <table></table>
EmptyTableNode == [kind |-> "table", text |-> <<>>, rows |-> <<>>]
\* <table><tr>NamedHeader</tr><tr>LinkCell</tr></table>
DataTableNode ==
    [kind |-> "table", text |-> <<>>,
     rows |-> << [ths |-> <<NamedHeader>>, tds |-> <<>>],
                 [ths |-> <<>>, tds |-> <<LinkCell>>] >>]

\* a document: its headings and tables, siblings of each other, in order
DocUniverse == SeqsUpTo({HeadingNode, EmptyTableNode, DataTableNode}, MaxNodes)

\* $('table'): the positions of the table elements, in document order
RECURSIVE TablePositions(_, _)
TablePositions(doc, from) ==
    IF from > Len(doc) THEN <<>>
    ELSE (IF doc[from].kind = "table" THEN <<from>> ELSE <<>>)
         \o TablePositions(doc, from + 1)

\* a mutant of EachIndex: the position among all the sibling nodes
EachIndexAmongSiblings(doc, visited) == TablePositions(doc, 1)[visited + 1] - 1

\* the index $('table').each hands to its callback: the number of table
\* elements visited before
EachIndex(doc, visited) == visited

\* the table name: $(table).prevAll(headerSelector).first(), its text up to
\* the separator, normalised; empty without such a sibling
TableName(doc, pos) ==
    LET before == {p \in 1..(pos - 1) : doc[p].kind = "heading"}
    IN  IF before = {} THEN <<>>
        ELSE LET prevHeader == doc[CHOOSE p \in before : \A q \in before : q <= p]
             IN  normalizeColumnName(SplitFirst(prevHeader.text, tableNameSeparator))

\* outputFilePath
OutputFilePath(fileName) == join(outputDirectory, fileName)

\* outputFileName
OutputFileName(file, index, tableName) ==
    IF tableName # <<>>
    THEN basename(file, HtmlExt) \o TableInfix \o ToStr(index)
            \o <<".">> \o tableName \o CsvExt
    ELSE basename(file, HtmlExt) \o TableInfix \o ToStr(index) \o CsvExt

----------------------------------------------------------------------------
(* SpecRun: main over the input files, a file read or a table callback at  *)
(* a time. Reading a file and writing a file may throw.                    *)

InitRun ==
    /\ pc = "start"
    /\ input \in Sources
    /\ htmlFiles = <<>>
    /\ documents \in [Range(getHtmlFiles(input).value) -> DocUniverse]
    /\ fileIndex = 1
    /\ tableIndex = 0
    /\ writes = <<>>
    /\ log = <<>>
    /\ exitCode = -1
    /\ error = "none"
    /\ idleNorm /\ idleExtract

CurrentFile == htmlFiles[fileIndex]
CurrentDoc == documents[CurrentFile]

\* const htmlFiles = getHtmlFiles(argv.input); when lstatSync or readdirSync
\* throws, main().catch reports the error and exits with status 1
GetHtmlFiles ==
    /\ pc = "start"
    /\ LET found == getHtmlFiles(input)
       IN  IF found.threw
           THEN /\ pc' = "failed"
                /\ error' = "input"
                /\ exitCode' = 1
                /\ UNCHANGED htmlFiles
           ELSE /\ htmlFiles' = found.value
                /\ pc' = "file"
                /\ UNCHANGED <<error, exitCode>>
    /\ UNCHANGED <<input, documents, fileIndex, tableIndex, writes, log,
                   normVars, extractVars>>

\* readHtmlFile and cheerio.load of the next file; the read may throw, and
\* main().catch then reports the error and exits with status 1
ReadFile ==
    /\ pc = "file" /\ fileIndex <= Len(htmlFiles)
    /\ \E ok \in BOOLEAN :
          IF ok
          THEN /\ pc' = "table"
               /\ tableIndex' = 0
               /\ UNCHANGED <<error, exitCode>>
          ELSE /\ pc' = "failed"
               /\ error' = "read"
               /\ exitCode' = 1
               /\ UNCHANGED tableIndex
    /\ UNCHANGED <<input, htmlFiles, documents, fileIndex, writes, log, normVars, extractVars>>

\* a mutant of ProcessTable: a failed write is caught and the run goes on
\* with the next table
ProcessTableCatching ==
    /\ pc = "table" /\ tableIndex < Len(TablePositions(CurrentDoc, 1))
    /\ LET pos == TablePositions(CurrentDoc, 1)[tableIndex + 1]
           index == EachIndex(CurrentDoc, tableIndex)
           pruned == RemoveUnwanted(CurrentDoc[pos].rows)
           result == ExtractTable(pruned)
           path == OutputFilePath(OutputFileName(CurrentFile, index,
                                                 TableName(CurrentDoc, pos)))
       IN  /\ documents' = [documents EXCEPT ![CurrentFile][pos].rows = pruned]
           /\ IF Len(result.tableData) > 0
              THEN \E ok \in BOOLEAN :
                      IF ok
                      THEN /\ writes' = Append(writes, path)
                           /\ log' = Append(log, [kind |-> "saved", index |-> index,
                                                  file |-> CurrentFile, path |-> path])
                           /\ UNCHANGED error
                      ELSE /\ error' = "write"
                           /\ UNCHANGED <<writes, log>>
              ELSE /\ log' = Append(log, [kind |-> "nodata", index |-> index,
                                          file |-> CurrentFile, path |-> <<>>])
                   /\ UNCHANGED <<writes, error>>
    /\ tableIndex' = tableIndex + 1
    /\ UNCHANGED <<input, pc, exitCode, htmlFiles, fileIndex, normVars, extractVars>>

\* the table callback: name, extraction, and the CSV file or the notice;
\* the write may throw, and main().catch then reports the error and exits
\* with status 1
ProcessTable ==
    /\ pc = "table" /\ tableIndex < Len(TablePositions(CurrentDoc, 1))
    /\ LET pos == TablePositions(CurrentDoc, 1)[tableIndex + 1]
           index == EachIndex(CurrentDoc, tableIndex)
           pruned == RemoveUnwanted(CurrentDoc[pos].rows)
           result == ExtractTable(pruned)
           path == OutputFilePath(OutputFileName(CurrentFile, index,
                                                 TableName(CurrentDoc, pos)))
       IN  /\ documents' = [documents EXCEPT ![CurrentFile][pos].rows = pruned]
           /\ IF Len(result.tableData) > 0
              THEN \E ok \in BOOLEAN :
                      IF ok
                      THEN /\ writes' = Append(writes, path)
                           /\ log' = Append(log, [kind |-> "saved", index |-> index,
                                                  file |-> CurrentFile, path |-> path])
                           /\ tableIndex' = tableIndex + 1
                           /\ UNCHANGED <<pc, error, exitCode>>
                      ELSE /\ pc' = "failed"
                           /\ error' = "write"
                           /\ exitCode' = 1
                           /\ UNCHANGED <<writes, log, tableIndex>>
              ELSE /\ log' = Append(log, [kind |-> "nodata", index |-> index,
                                          file |-> CurrentFile, path |-> <<>>])
                   /\ tableIndex' = tableIndex + 1
                   /\ UNCHANGED <<pc, writes, error, exitCode>>
    /\ UNCHANGED <<input, htmlFiles, fileIndex, normVars, extractVars>>

\* after the last table of a file: the next round of htmlFiles.forEach
NextFile ==
    /\ pc = "table" /\ tableIndex = Len(TablePositions(CurrentDoc, 1))
    /\ fileIndex' = fileIndex + 1
    /\ pc' = "file"
    /\ UNCHANGED <<input, htmlFiles, documents, tableIndex, writes, log, exitCode, error,
                   normVars, extractVars>>

\* after the last file main returns and the process exits with status 0
Finish ==
    /\ pc = "file" /\ fileIndex > Len(htmlFiles)
    /\ pc' = "done"
    /\ exitCode' = 0
    /\ UNCHANGED <<input, htmlFiles, documents, fileIndex, tableIndex, writes, log, error,
                   normVars, extractVars>>

NextRun == GetHtmlFiles \/ ReadFile \/ ProcessTable \/ NextFile \/ Finish

SpecRun == InitRun /\ [][NextRun]_vars

----------------------------------------------------------------------------
(* The claims about a run (SpecRun).                                       *)

\* <<file, position>> of the first n table elements of a file
TablesOf(file, n) ==
    [i \in 1..n |-> <<file, TablePositions(documents[file], 1)[i]>>]

\* <<file, position>> of all the table elements of the first n files
RECURSIVE TablesOfFiles(_)
TablesOfFiles(n) ==
    IF n = 0 THEN <<>>
    ELSE TablesOfFiles(n - 1)
         \o TablesOf(htmlFiles[n], Len(TablePositions(documents[htmlFiles[n]], 1)))

\* the tables whose callback has returned, in processing order
DoneTables ==
    IF pc = "table" \/ (pc = "failed" /\ error = "write")
    THEN TablesOfFiles(fileIndex - 1) \o TablesOf(CurrentFile, tableIndex)
    ELSE TablesOfFiles(fileIndex - 1)

\* the number of table elements before a position of a document
Preceding(doc, pos) == Cardinality({p \in 1..(pos - 1) : doc[p].kind = "table"})

HasData(t) ==
    Len(ExtractTable(RemoveUnwanted(documents[t[1]][t[2]].rows)).tableData) > 0

PathOf(t) ==
    OutputFilePath(OutputFileName(t[1], Preceding(documents[t[1]], t[2]),
                                  TableName(documents[t[1]], t[2])))

\* the paths of the tables with Records among the tables done
RECURSIVE PathsOf(_)
PathsOf(ts) ==
    IF ts = <<>> THEN <<>>
    ELSE (IF HasData(Head(ts)) THEN <<PathOf(Head(ts))>> ELSE <<>>) \o PathsOf(Tail(ts))

\* C5: the files written in one run have pairwise distinct names.
DistinctOutputNames ==
    \A i, j \in DOMAIN writes : i # j => writes[i] # writes[j]

\* C7: each table logs one line, with the number of table elements before it
\* in its document as index, and that index is in the name of its file; a
\* table without Records logs the notice, writes nothing and has its index.
StableIndices ==
    LET done == DoneTables
    IN  /\ Len(log) = Len(done)
        /\ \A i \in DOMAIN log :
              LET t == done[i]
                  doc == documents[t[1]]
              IN  /\ log[i].file = t[1]
                  /\ log[i].index = Preceding(doc, t[2])
                  /\ log[i].kind = IF HasData(t) THEN "saved" ELSE "nodata"
                  /\ log[i].kind = "saved" => log[i].path = PathOf(t)
        /\ writes = PathsOf(done)

\* C7 witness: the run is over a single file with a table without Records
\* and a table with Records; the second table has index 1.
StableIndicesWitness ==
    /\ pc = "done"
    /\ input.path = <<".", "/", "d", "/">>
    /\ htmlFiles = << <<"d", "/", "x">> \o HtmlExt >>
    /\ Len(documents[htmlFiles[1]]) = 2
    /\ documents[htmlFiles[1]][1] = EmptyTableNode
    /\ documents[htmlFiles[1]][2].rows = RemoveUnwanted(DataTableNode.rows)
    /\ Len(log) = 2
    /\ log[1].kind = "nodata" /\ log[1].index = 0
    /\ log[2].kind = "saved" /\ log[2].index = 1
    /\ writes = << outputDirectory \o <<"/", "x">> \o TableInfix \o <<"1">> \o CsvExt >>

\* C9: once getHtmlFiles, a read or a write has thrown, the run has ended with the error
\* reported and exit status 1; the files written are those of the tables
\* before the failing one, and no later table was extracted or written; an
\* input path that is missing or cannot be listed ends the run that way
\* before any file is read.
FailFast ==
    /\ error # "none" <=> pc = "failed"
    /\ exitCode = 1 <=> pc = "failed"
    /\ pc = "failed" =>
          /\ writes = PathsOf(DoneTables)
          /\ Len(log) = Len(DoneTables)
    /\ (pc # "start" /\ getHtmlFiles(input).threw) =>
          /\ pc = "failed" /\ error = "input"
          /\ htmlFiles = <<>> /\ writes = <<>> /\ log = <<>>

\* C9 witness: the first table of the first of two files was written, the
\* write of its second table threw; another file follows.
FailFastWitness ==
    /\ pc = "failed"
    /\ error = "write"
    /\ exitCode = 1
    /\ Len(htmlFiles) = 2
    /\ fileIndex = 1
    /\ tableIndex = 1
    /\ TablePositions(CurrentDoc, 1) = <<1, 2>>
    /\ CurrentDoc[1].rows = RemoveUnwanted(DataTableNode.rows)
    /\ CurrentDoc[2].rows = RemoveUnwanted(DataTableNode.rows)
    /\ Len(writes) = 1
    /\ Len(log) = 1

====
